---- MODULE Spec2Model ----
(***************************************************************************)
(* A model of the point-grid page (src/unnamed/part_000: the WebGL grid,   *)
(* its event handlers, its frame loop and the Matrix3 class) and of the    *)
(* copy buttons (src/scripts/copyButtons.js).                              *)
(*                                                                         *)
(* JavaScript numbers are modelled as exact rationals <<n, d>>, except     *)
(* where rounding decides a discrete outcome: the two quotients that       *)
(* rebuildGrid passes to Math.ceil are computed in IEEE-754 binary64,      *)
(* bit for bit (Dbl... below), because ceil(W / (W / 69)) is 69 or 70      *)
(* depending on the rounding of the two divisions.                         *)
(***************************************************************************)
EXTENDS Integers, Sequences, FiniteSets, TLC

VARIABLES
    heap,        \* the Matrix3 objects: address -> elements (0..8 -> number), or Free
    pc,          \* position of the matrix harness / of the page's startup
    callRec,     \* the last Matrix3 call of the harness: receiver, arguments, result
    inner,       \* window.innerWidth, window.innerHeight
    canvas,      \* canvas.width, canvas.height
    pMatrix,     \* the global pMatrix: an address, or Null
    mouse,       \* the globals mouseX, mouseY
    vao,         \* the vertex array object: vertexCount and the uploaded position buffer
    raf,         \* number of pending requestAnimationFrame callbacks
    drawn,       \* what the last frame handed to WebGL (uniforms, viewport, draw count),
                 \* with its parity (seq) and the events handled before it (after)
    hist,        \* history: the most recent pointer/touch client position, and the
                 \* kinds of event handled since the last frame
    innerHTML,   \* per copy button: the glyph it shows
    timers,      \* per copy button: the pending setTimeout callbacks (time left, ms)
    clipboard,   \* the text last written to the clipboard
    sinceClick   \* history: per copy button, ms elapsed since its last click

pageVars == <<inner, canvas, pMatrix, mouse, vao, raf, drawn, hist>>
copyVars == <<innerHTML, timers, clipboard, sinceClick>>
vars == <<heap, pc, callRec, inner, canvas, pMatrix, mouse, vao, raf, drawn,
          hist, innerHTML, timers, clipboard, sinceClick>>

Undefined == "undefined"
\* The value of pMatrix before resizeCanvas first assigns it (no address).
Null == 0
\* A free heap slot (no elements array).
Free == << >>

(***************************************************************************)
(* Exact rational arithmetic: a number is <<n, d>> in lowest terms, d > 0. *)
(***************************************************************************)
Abs(x) == IF x < 0 THEN -x ELSE x

\* Euclid's algorithm (a function, so that its arguments are values).
gcd[a \in Nat, b \in Nat] == IF b = 0 THEN a ELSE gcd[b, a % b]

GCD(a, b) == gcd[a, b]

\* n / d in lowest terms (a function, for the same reason).
norm[n \in Int, d \in Int] ==
    LET g == gcd[Abs(n), Abs(d)]
        s == IF d < 0 THEN -1 ELSE 1
    IN  <<(s * n) \div g, (s * d) \div g>>

Norm(n, d) == norm[n, d]

Num(k) == <<k, 1>>
Rat == Int \X Int
radd[a \in Rat, b \in Rat] == norm[a[1] * b[2] + b[1] * a[2], a[2] * b[2]]
rmul[a \in Rat, b \in Rat] == norm[a[1] * b[1], a[2] * b[2]]
RAdd(a, b) == radd[a, b]
RNeg(a) == <<-a[1], a[2]>>
RSub(a, b) == radd[a, RNeg(b)]
RMul(a, b) == rmul[a, b]
RDiv(a, b) == norm[a[1] * b[2], a[2] * b[1]]
RLess(a, b) == a[1] * b[2] < b[1] * a[2]
RLeq(a, b) == a[1] * b[2] <= b[1] * a[2]

(***************************************************************************)
(* IEEE-754 binary64, for positive finite values: [m, e] is m * 2^e with   *)
(* the 53-bit significand m held as two 27-bit limbs <<hi, lo>>.           *)
(***************************************************************************)
LimbBase == 2^27

LTwice(n) == LET l == 2 * n[2] IN <<2 * n[1] + (l \div LimbBase), l % LimbBase>>
LHalf(n) == <<n[1] \div 2, (n[1] % 2) * (LimbBase \div 2) + (n[2] \div 2)>>
LGeq(a, b) == a[1] > b[1] \/ (a[1] = b[1] /\ a[2] >= b[2])
LSub(a, b) ==
    IF a[2] >= b[2] THEN <<a[1] - b[1], a[2] - b[2]>>
    ELSE <<a[1] - b[1] - 1, a[2] + LimbBase - b[2]>>
LInc(n) == IF n[2] + 1 = LimbBase THEN <<n[1] + 1, 0>> ELSE <<n[1], n[2] + 1>>
LOdd(n) == n[2] % 2 = 1

RECURSIVE DblNormalize(_, _)
DblNormalize(m, e) ==
    IF m[1] >= 2^25 THEN [m |-> m, e |-> e] ELSE DblNormalize(LTwice(m), e - 1)

\* The double that holds the positive integer n exactly.
DblFromInt(n) == DblNormalize(<<n \div LimbBase, n % LimbBase>>, 0)

\* 55 quotient bits of r / d by restoring division, and whether a remainder is left.
\* (The test of q keeps the quotient evaluated at every step; it is never negative.)
RECURSIVE DblDivBits(_, _, _, _)
DblDivBits(r, q, i, d) ==
    IF i = 0 \/ q[1] < 0 THEN [q |-> q, sticky |-> r # <<0, 0>>]
    ELSE IF LGeq(r, d) THEN DblDivBits(LTwice(LSub(r, d)), LInc(LTwice(q)), i - 1, d)
    ELSE DblDivBits(LTwice(r), LTwice(q), i - 1, d)

\* a / b rounded to nearest, ties to even.
DblDiv(a, b) ==
    LET bits == DblDivBits(a.m, <<0, 0>>, 55, b.m)
        wide == bits.q[1] >= LimbBase
        m0 == IF wide THEN LHalf(LHalf(bits.q)) ELSE LHalf(bits.q)
        rest == IF wide THEN bits.q[2] % 4 ELSE 2 * (bits.q[2] % 2)
        up == rest = 3 \/ (rest = 2 /\ (bits.sticky \/ LOdd(m0)))
        m1 == IF up THEN LInc(m0) ELSE m0
        e0 == a.e - b.e - (IF wide THEN 52 ELSE 53)
    IN  IF m1[1] >= 2^26 THEN [m |-> LHalf(m1), e |-> e0 + 1] ELSE [m |-> m1, e |-> e0]

RECURSIVE DblShiftRight(_, _, _)
DblShiftRight(m, s, sticky) ==
    IF s <= 0 \/ m = <<0, 0>> THEN [m |-> m, sticky |-> sticky]
    ELSE DblShiftRight(LHalf(m), s - 1, sticky \/ LOdd(m))

\* Math.ceil of a positive double below 2^27.
DblCeil(a) ==
    LET r == DblShiftRight(a.m, -a.e, FALSE)
    IN  r.m[1] * LimbBase + r.m[2] + (IF r.sticky THEN 1 ELSE 0)

(***************************************************************************)
(* class Matrix3.  An object is an address of the heap; heap[a] is its     *)
(* elements array (a Float32Array(9)), indexed 0..8 as in the source.      *)
(* Every method takes the heap and `this` and returns the heap it leaves;  *)
(* the methods that `return this` return the receiver's address.           *)
(***************************************************************************)
HeapSize == 4
Addrs == 1..HeapSize

Zero == Num(0)
One == Num(1)

\* new Float32Array(9)
Float32Array9 == [i \in 0..8 |-> Zero]

Alloc(h) == CHOOSE a \in Addrs : h[a] = Free /\ \A b \in Addrs : b < a => h[b] # Free

\* set(m11, ..., m33): row-major parameters, column-major storage.
set(h, this, m11, m12, m13, m21, m22, m23, m31, m32, m33) ==
    [heap |-> [h EXCEPT ![this] = [@ EXCEPT ![0] = m11, ![3] = m12, ![6] = m13,
                                            ![1] = m21, ![4] = m22, ![7] = m23,
                                            ![2] = m31, ![5] = m32, ![8] = m33]],
     ret |-> this]

makeIdentity(h, this) ==
    LET s == set(h, this, One, Zero, Zero,
                          Zero, One, Zero,
                          Zero, Zero, One)
    IN  [heap |-> s.heap, ret |-> this]

\* new Matrix3(): the heap with the new object, and its address.
Matrix3(h) ==
    LET a == Alloc(h)
    IN  [heap |-> makeIdentity([h EXCEPT ![a] = Float32Array9], a).heap, ret |-> a]

\* A faulty variant of clone: hands back the receiver instead of a copy.
cloneAliased(h, this) == [heap |-> h, ret |-> this]

clone(h, this) ==
    LET newMatrix == Matrix3(h)
    IN  [heap |-> [newMatrix.heap EXCEPT
                      ![newMatrix.ret] = [i \in 0..8 |-> newMatrix.heap[this][i]]],
         ret |-> newMatrix.ret]

makeTranslation(h, this, x, y) ==
    LET s == set(h, this, One, Zero, x,
                          Zero, One, y,
                          Zero, Zero, One)
    IN  [heap |-> s.heap, ret |-> this]

makeOrthographic(h, this, l, r, t, b) ==
    LET s == set(h, this,
                 RDiv(Num(2), RSub(r, l)), Zero, Zero,
                 Zero, RDiv(Num(2), RSub(t, b)), Zero,
                 RDiv(RNeg(RAdd(r, l)), RSub(r, l)), RDiv(RNeg(RAdd(t, b)), RSub(t, b)), One)
    IN  [heap |-> s.heap, ret |-> this]

\* multiplyVector returns a new Vector3, here the record of its components.
multiplyVector(h, this, v) ==
    LET e == h[this]
    IN  [x |-> RAdd(RAdd(RMul(e[0], v.x), RMul(e[3], v.y)), RMul(e[6], v.z)),
         y |-> RAdd(RAdd(RMul(e[1], v.x), RMul(e[4], v.y)), RMul(e[7], v.z)),
         z |-> RAdd(RAdd(RMul(e[2], v.x), RMul(e[5], v.y)), RMul(e[8], v.z))]

\* a[i] * b[p] + a[j] * b[q] + a[k] * b[r]
Dot3(a, i, j, k, b, p, q, r) ==
    RAdd(RAdd(RMul(a[i], b[p]), RMul(a[j], b[q])), RMul(a[k], b[r]))

\* A faulty variant of multiplyMatrix: the operands swapped (this = m x this).
multiplyMatrixReversed(h, this, m) ==
    LET a == h[m]
        b == h[this]
        s == set(h, this,
            Dot3(a, 0, 3, 6, b, 0, 1, 2), Dot3(a, 0, 3, 6, b, 3, 4, 5), Dot3(a, 0, 3, 6, b, 6, 7, 8),
            Dot3(a, 1, 4, 7, b, 0, 1, 2), Dot3(a, 1, 4, 7, b, 3, 4, 5), Dot3(a, 1, 4, 7, b, 6, 7, 8),
            Dot3(a, 2, 5, 8, b, 0, 1, 2), Dot3(a, 2, 5, 8, b, 3, 4, 5), Dot3(a, 2, 5, 8, b, 6, 7, 8))
    IN  [heap |-> s.heap, ret |-> this]

\* The nine arguments are computed from a and b before set writes any cell.
multiplyMatrix(h, this, m) ==
    LET a == h[this]
        b == h[m]
        s == set(h, this,
            Dot3(a, 0, 3, 6, b, 0, 1, 2), Dot3(a, 0, 3, 6, b, 3, 4, 5), Dot3(a, 0, 3, 6, b, 6, 7, 8),
            Dot3(a, 1, 4, 7, b, 0, 1, 2), Dot3(a, 1, 4, 7, b, 3, 4, 5), Dot3(a, 1, 4, 7, b, 6, 7, 8),
            Dot3(a, 2, 5, 8, b, 0, 1, 2), Dot3(a, 2, 5, 8, b, 3, 4, 5), Dot3(a, 2, 5, 8, b, 6, 7, 8))
    IN  [heap |-> s.heap, ret |-> this]

(***************************************************************************)
(* The Matrix3 harness: two objects a (address 1) and b (address 2), each  *)
(* either as constructed or filled by set; then one multiplyMatrix call,   *)
(* or makeOrthographic on a followed by multiplyVector on a corner.        *)
(***************************************************************************)
MaxNonZero == 1
MaxDense == 2
MaxBound == 2

CellVals == {-1, 0, 2}

SetArgs ==
    {f \in [1..9 -> CellVals] : Cardinality({i \in 1..9 : f[i] # 0}) <= MaxNonZero}
        \cup {[i \in 1..9 |-> k + i - 1] : k \in 1..MaxDense}

MatrixInputs == {[kind |-> "new"]} \cup {[kind |-> "set", args |-> f] : f \in SetArgs}

EmptyHeap == [a \in Addrs |-> Free]

Construct(h, in) ==
    LET new == Matrix3(h)
        f == in.args
    IN  IF in.kind = "new" THEN new.heap
        ELSE set(new.heap, new.ret, Num(f[1]), Num(f[2]), Num(f[3]),
                                    Num(f[4]), Num(f[5]), Num(f[6]),
                                    Num(f[7]), Num(f[8]), Num(f[9])).heap

Bounds == (0 - MaxBound)..MaxBound

NoCall == [op |-> "none"]

PageIdle ==
    /\ inner = Undefined
    /\ canvas = Undefined
    /\ pMatrix = Null
    /\ mouse = Undefined
    /\ vao = Undefined
    /\ raf = 0
    /\ drawn = Undefined
    /\ hist = Undefined

CopyIdle ==
    /\ innerHTML = Undefined
    /\ timers = Undefined
    /\ clipboard = Undefined
    /\ sinceClick = Undefined

MatrixInit ==
    /\ callRec = NoCall
    /\ \/ /\ pc = "mul"
          /\ \E ia \in MatrixInputs, ib \in MatrixInputs :
                 heap = Construct(Construct(EmptyHeap, ia), ib)
       \/ /\ pc = "ortho"
          /\ heap = Matrix3(EmptyHeap).heap
    /\ PageIdle
    /\ CopyIdle

MultiplyMatrixCall(x, y) ==
    /\ pc = "mul"
    /\ LET r == multiplyMatrix(heap, x, y)
       IN  /\ heap' = r.heap
           /\ callRec' = [op |-> "multiplyMatrix", this |-> x, m |-> y,
                          before |-> heap, ret |-> r.ret]
    /\ pc' = "returned"
    /\ UNCHANGED <<pageVars, copyVars>>

MakeOrthographicCall(l, r, t, b) ==
    /\ pc = "ortho"
    /\ r # l
    /\ t # b
    /\ LET res == makeOrthographic(heap, 1, Num(l), Num(r), Num(t), Num(b))
       IN  /\ heap' = res.heap
           /\ callRec' = [op |-> "makeOrthographic", this |-> 1,
                          l |-> l, r |-> r, t |-> t, b |-> b, ret |-> res.ret]
    /\ pc' = "made"
    /\ UNCHANGED <<pageVars, copyVars>>

\* multiplyVector on the corner (l, b, 1) or (r, t, 1) of the bounds just set.
MultiplyVectorCall(corner) ==
    /\ pc = "made"
    /\ LET v == IF corner = "lb"
                THEN [x |-> Num(callRec.l), y |-> Num(callRec.b), z |-> One]
                ELSE [x |-> Num(callRec.r), y |-> Num(callRec.t), z |-> One]
       IN  callRec' = [op |-> "multiplyVector", this |-> callRec.ret, corner |-> corner,
                       l |-> callRec.l, r |-> callRec.r, t |-> callRec.t, b |-> callRec.b,
                       v |-> v, ret |-> multiplyVector(heap, callRec.ret, v)]
    /\ pc' = "returned"
    /\ UNCHANGED <<heap, pageVars, copyVars>>

MatrixNext ==
    \/ \E x \in 1..2, y \in 1..2 : MultiplyMatrixCall(x, y)
    \/ \E l \in Bounds, r \in Bounds, t \in Bounds, b \in Bounds : MakeOrthographicCall(l, r, t, b)
    \/ \E corner \in {"lb", "rt"} : MultiplyVectorCall(corner)

SpecMatrix == MatrixInit /\ [][MatrixNext]_vars

(***************************************************************************)
(* Claims about Matrix3, under SpecMatrix.                                 *)
(***************************************************************************)
\* The cell in row r, column c (1..3) of an elements array read column-major.
Cell(e, r, c) == e[(c - 1) * 3 + (r - 1)]

\* Row r of A times column c of B.
ProductCell(A, B, r, c) ==
    RAdd(RAdd(RMul(Cell(A, r, 1), Cell(B, 1, c)), RMul(Cell(A, r, 2), Cell(B, 2, c))),
         RMul(Cell(A, r, 3), Cell(B, 3, c)))

IsIdentity(e) == \A r \in 1..3, c \in 1..3 : Cell(e, r, c) = (IF r = c THEN One ELSE Zero)

MultiplyReturned == pc = "returned" /\ callRec.op = "multiplyMatrix"
VectorReturned == pc = "returned" /\ callRec.op = "multiplyVector"

\* C1: makeOrthographic(l, r, t, b) followed by multiplyVector takes (l, b, 1) to
\* x = -1, y = -1 and (r, t, 1) to x = 1, y = 1, for all bounds with r # l and
\* t # b, symmetric about zero or not.
C1_OrthographicMapsCorners ==
    VectorReturned =>
        IF callRec.corner = "lb"
        THEN callRec.ret.x = Num(-1) /\ callRec.ret.y = Num(-1)
        ELSE callRec.ret.x = One /\ callRec.ret.y = One

\* C8: A.multiplyMatrix(B) leaves in A the product A x B (row of A times column
\* of B, cells read column-major), returns A, and leaves B, when B is another
\* object than A, unchanged; with the identity on either side the result is the
\* other matrix.
C8_MultiplyMatrixIsProduct ==
    MultiplyReturned =>
        LET A == callRec.before[callRec.this]
            B == callRec.before[callRec.m]
        IN  /\ \A r \in 1..3, c \in 1..3 :
                   Cell(heap[callRec.this], r, c) = ProductCell(A, B, r, c)
            /\ callRec.m # callRec.this => heap[callRec.m] = B
            /\ callRec.ret = callRec.this
            /\ IsIdentity(B) => heap[callRec.this] = A
            /\ IsIdentity(A) => heap[callRec.this] = B

\* C8's case: a = set(1, ..., 9), b = set(2, ..., 10), two matrices that do not
\* commute; a.multiplyMatrix(b) has run and a's first cell is 1*2 + 2*5 + 3*8.
C8_Witness ==
    /\ MultiplyReturned
    /\ callRec.this = 1
    /\ callRec.m = 2
    /\ \A i \in 1..9 : /\ Cell(callRec.before[1], ((i - 1) \div 3) + 1, ((i - 1) % 3) + 1) = Num(i)
                       /\ Cell(callRec.before[2], ((i - 1) \div 3) + 1, ((i - 1) % 3) + 1) = Num(i + 1)
    /\ heap[1][0] = Num(36)
    /\ heap[1][3] = Num(42)

(***************************************************************************)
(* The page: the canvas, the globals of part_000, the event listeners and  *)
(* the frame callback.  Every listener and callback runs to completion     *)
(* (one thread, one event loop), so each is one action.                    *)
(***************************************************************************)
GRID_SIZE == 70
MaxScale == 2

\* Viewport sizes (width, height): each base size at every scale 1..MaxScale.
BaseSizes == {<<400, 300>>, <<283, 150>>, <<300, 400>>}
Sizes == {[width |-> b[1] * k, height |-> b[2] * k] : b \in BaseSizes, k \in 1..MaxScale}

\* Client positions (clientX, clientY) of pointer and touch events.
ClientPoints == {<<400, 300>>, <<150, 75>>}
TouchLists == {<< >>} \cup {<<p>> : p \in ClientPoints}
                  \cup {<<p, q>> : <<p, q>> \in {pq \in ClientPoints \X ClientPoints : pq[1] # pq[2]}}

\* A canvas element before anything sets its size.
DefaultCanvas == [width |-> 300, height |-> 150]

\* The objects no global refers to are collected when a handler returns.
Collect(h, live) == [a \in Addrs |-> IF a \in live THEN h[a] ELSE Free]

MathMax(a, b) == IF a > b THEN a ELSE b

\* A faulty variant of MathCeil: rounds down.
MathFloor(d) == DblCeil(d) - (IF DblShiftRight(d.m, -d.e, FALSE).sticky THEN 1 ELSE 0)

MathCeil(d) == DblCeil(d)

\* A faulty variant of GridCoordinate: the half-step offset left out.
GridCoordinateNoOffset(i, step, extent) ==
    RSub(RMul(Num(i), step), RDiv(Num(extent), Num(2)))

\* i * step - extent / 2 + step / 2, as an exact number: the rounding of the
\* coordinate to a double, and to a float when it is uploaded, is left out.
GridCoordinate(i, step, extent) ==
    RAdd(RSub(RMul(Num(i), step), RDiv(Num(extent), Num(2))), RDiv(step, Num(2)))

\* A faulty variant of StepDbl: a fixed spacing instead of maxDim / (GRID_SIZE - 1).
StepDblFixed(maxDim) == DblFromInt(GRID_SIZE - 1)

\* step, as the double the two quotients are divided by.
StepDbl(maxDim) == DblDiv(DblFromInt(maxDim), DblFromInt(GRID_SIZE - 1))

\* rebuildGrid for a canvas c: the vao it leaves.  The loops push, row by row
\* (y outer, x inner), the point (GridCoordinate(x, step, c.width),
\* GridCoordinate(y, step, c.height)) for x < cols and y < rows; the buffer is
\* kept as what determines it: cols, rows, step and the two extents
\* (PositionX, PositionY below give its content).  vertexCount is
\* positions.length / 2.
rebuildGrid(c) ==
    LET maxDim == MathMax(c.width, c.height)
        step == RDiv(Num(maxDim), Num(GRID_SIZE - 1))
        stepDbl == StepDbl(maxDim)
        cols == MathCeil(DblDiv(DblFromInt(c.width), stepDbl))
        rows == MathCeil(DblDiv(DblFromInt(c.height), stepDbl))
    IN  [vertexCount |-> (2 * cols * rows) \div 2,
         positions |-> [cols |-> cols, rows |-> rows, step |-> step,
                        width |-> c.width, height |-> c.height]]

\* The x-coordinate of the points of column x, the y-coordinate of those of row y.
PositionX(buf, x) == GridCoordinate(x, buf.step, buf.width)
PositionY(buf, y) == GridCoordinate(y, buf.step, buf.height)

\* rebuildGrid depends on the canvas size alone: its result for every size.
GridTable == [c \in Sizes |-> rebuildGrid(c)]

\* resizeCanvas: the canvas takes the window's size and pMatrix a new matrix.
resizeCanvas(h, win) ==
    LET c == [width |-> win.width, height |-> win.height]
        new == Matrix3(h)
        made == makeOrthographic(new.heap, new.ret,
                    RDiv(Num(-c.width), Num(2)), RDiv(Num(c.width), Num(2)),
                    RDiv(Num(c.height), Num(2)), RDiv(Num(-c.height), Num(2)))
    IN  [canvas |-> c, pMatrix |-> made.ret, heap |-> Collect(made.heap, {made.ret})]

updatePointerPosition(x, y) ==
    [x |-> RSub(Num(x), RDiv(Num(canvas.width), Num(2))),
     y |-> RSub(RDiv(Num(canvas.height), Num(2)), Num(y))]

NoFrame == [seq |-> 0]

\* The global vao before main assigns it.
NoVao == [created |-> FALSE]

PageInit ==
    /\ pc = "loading"
    /\ heap = EmptyHeap
    /\ callRec = NoCall
    /\ inner \in Sizes
    /\ canvas = DefaultCanvas
    /\ pMatrix = Null
    /\ mouse = [x |-> Zero, y |-> Zero]
    /\ vao = NoVao
    /\ raf = 0
    /\ drawn = NoFrame
    /\ hist = [seen |-> FALSE, x |-> 0, y |-> 0, sinceFrame |-> {}]
    /\ CopyIdle

PointerEvent(x, y) ==
    /\ mouse' = updatePointerPosition(x, y)
    /\ hist' = [hist EXCEPT !.seen = TRUE, !.x = x, !.y = y,
                            !.sinceFrame = @ \cup {"pointer"}]
    /\ UNCHANGED <<heap, pc, callRec, inner, canvas, pMatrix, vao, raf, drawn, copyVars>>

\* The mousemove listener.
MouseMove(x, y) == PointerEvent(x, y)

\* The touchmove listener: touches[0], when there is one.
TouchMove(touches) ==
    IF Len(touches) > 0 THEN PointerEvent(touches[1][1], touches[1][2])
    ELSE UNCHANGED vars

\* The touchstart listener.
TouchStart(touches) ==
    IF Len(touches) > 0 THEN PointerEvent(touches[1][1], touches[1][2])
    ELSE UNCHANGED vars

\* A faulty variant of ResizeListener: the grid is not rebuilt.
ResizeListenerNoRebuild(w, h) ==
    /\ inner' = [width |-> w, height |-> h]
    /\ LET rc == resizeCanvas(heap, inner')
       IN  /\ canvas' = rc.canvas
           /\ pMatrix' = rc.pMatrix
           /\ heap' = rc.heap
    /\ hist' = [hist EXCEPT !.sinceFrame = @ \cup {"resize"}]
    /\ UNCHANGED <<vao, pc, callRec, mouse, raf, drawn, copyVars>>

\* The window takes the size (w, h) and the resize listener runs: resizeCanvas,
\* then rebuildGrid, which throws at gl.bindBuffer while gl is undefined.
ResizeListener(w, h) ==
    /\ inner' = [width |-> w, height |-> h]
    /\ LET rc == resizeCanvas(heap, inner')
       IN  /\ canvas' = rc.canvas
           /\ pMatrix' = rc.pMatrix
           /\ heap' = rc.heap
           /\ vao' = IF pc = "running" THEN GridTable[rc.canvas] ELSE vao
    /\ hist' = [hist EXCEPT !.sinceFrame = @ \cup {"resize"}]
    /\ UNCHANGED <<pc, callRec, mouse, raf, drawn, copyVars>>

\* main, on load, with a WebGL2 context.
Main ==
    /\ pc = "loading"
    /\ LET rc == resizeCanvas(heap, inner)
       IN  /\ canvas' = rc.canvas
           /\ pMatrix' = rc.pMatrix
           /\ heap' = rc.heap
           /\ vao' = GridTable[rc.canvas]
    /\ raf' = raf + 1
    /\ pc' = "running"
    /\ hist' = [hist EXCEPT !.sinceFrame = {}]
    /\ UNCHANGED <<callRec, inner, mouse, drawn, copyVars>>

\* main where getWebGL2Context throws: only resizeCanvas has run.
MainThrows ==
    /\ pc = "loading"
    /\ LET rc == resizeCanvas(heap, inner)
       IN  /\ canvas' = rc.canvas
           /\ pMatrix' = rc.pMatrix
           /\ heap' = rc.heap
    /\ pc' = "failed"
    /\ UNCHANGED <<callRec, inner, mouse, vao, raf, drawn, hist, copyVars>>

\* The frame handed to WebGL by updateAndRender, given its mpMatrix.  The
\* uniforms u_mousePosition and u_time, copies of mouseX, mouseY and of the
\* clock that nothing reads back, are left out.
Frame(h, mpMatrix) ==
    [seq |-> IF drawn.seq = 1 THEN 2 ELSE 1,
     u_mpMatrix |-> h[mpMatrix],
     mpMatrix |-> mpMatrix,
     viewport |-> canvas,
     vertexCount |-> vao.vertexCount,
     after |-> hist.sinceFrame]

\* A faulty variant of UpdateAndRender: the frame does not request the next one.
UpdateAndRenderOnce ==
    /\ raf > 0
    /\ UNCHANGED <<pc, callRec, inner, canvas, pMatrix, mouse, vao, copyVars>>
    /\ hist' = [hist EXCEPT !.sinceFrame = {}]
    /\ \E new \in {Matrix3(heap)} :
       \E mMatrix \in {makeTranslation(new.heap, new.ret, Zero, Zero)} :
       \E cloned \in {clone(mMatrix.heap, pMatrix)} :
       \E mpMatrix \in {multiplyMatrix(cloned.heap, cloned.ret, mMatrix.ret)} :
           /\ drawn' = Frame(mpMatrix.heap, mpMatrix.ret)
           /\ heap' = Collect(mpMatrix.heap, {pMatrix})
    /\ raf' = raf - 1

\* A pending frame callback runs: updateAndRender, from new Matrix3() to its
\* requestAnimationFrame; its two local matrices are garbage when it returns.
UpdateAndRender ==
    /\ raf > 0
    /\ UNCHANGED <<pc, callRec, inner, canvas, pMatrix, mouse, vao, copyVars>>
    /\ hist' = [hist EXCEPT !.sinceFrame = {}]
    /\ \E new \in {Matrix3(heap)} :
       \E mMatrix \in {makeTranslation(new.heap, new.ret, Zero, Zero)} :
       \E cloned \in {clone(mMatrix.heap, pMatrix)} :
       \E mpMatrix \in {multiplyMatrix(cloned.heap, cloned.ret, mMatrix.ret)} :
           /\ drawn' = Frame(mpMatrix.heap, mpMatrix.ret)
           /\ heap' = Collect(mpMatrix.heap, {pMatrix})
    /\ raf' = (raf - 1) + 1

PageNext ==
    \/ Main
    \/ MainThrows
    \/ \E s \in Sizes : ResizeListener(s.width, s.height)
    \/ \E p \in ClientPoints : MouseMove(p[1], p[2])
    \/ \E touches \in TouchLists : TouchMove(touches)
    \/ \E touches \in TouchLists : TouchStart(touches)
    \/ UpdateAndRender

SpecPage == PageInit /\ [][PageNext]_vars

\* The browser runs a pending frame callback at the next display refresh.
SpecPageFair == SpecPage /\ WF_vars(UpdateAndRender)

(***************************************************************************)
(* Claims about the page, under SpecPage (C9 under SpecPageFair).          *)
(***************************************************************************)
Running == pc = "running"

Size(w, h) == [width |-> w, height |-> h]

\* The orthographic projection of the rectangle of width w and height h
\* centred on the origin: scale 2/w and 2/h, no translation.
ExpectedProjection(c) ==
    [i \in 0..8 |-> IF i = 0 THEN RDiv(Num(2), Num(c.width))
                    ELSE IF i = 4 THEN RDiv(Num(2), Num(c.height))
                    ELSE IF i = 8 THEN One ELSE Zero]

\* C2 as stated: at 800 x 600 rebuildGrid computes cols = 70, rows = 52 and
\* uploads 3640 points.
C2_Original ==
    (Running /\ canvas = Size(800, 600)) =>
        /\ vao.positions.cols = 70
        /\ vao.positions.rows = 52
        /\ vao.vertexCount = 3640

\* C2, amended: at 800 x 600 rebuildGrid computes cols = 69 (800 / (800 / 69) is
\* exactly 69 in doubles), rows = 52, and uploads 69 * 52 = 3588 points.
C2_Grid800x600 ==
    (Running /\ canvas = Size(800, 600)) =>
        /\ vao.positions.cols = 69
        /\ vao.positions.rows = 52
        /\ vao.vertexCount = 3588

C2_Witness == Running /\ canvas = Size(800, 600) /\ vao.vertexCount = 3588 /\ raf = 1

\* A resize that doubles both the width and the height of a running page.
DoublingResize ==
    /\ Running
    /\ pc' = "running"
    /\ canvas'.width = 2 * canvas.width
    /\ canvas'.height = 2 * canvas.height

\* C3 as stated: the grid rebuilt at (2W, 2H) has about four times the points
\* of the grid at (W, H): between (2 cols - 1)(2 rows - 1) and 4 cols rows,
\* the room the two ceilings leave.
C3_Original ==
    [][DoublingResize =>
         /\ (2 * vao.positions.cols - 1) * (2 * vao.positions.rows - 1) <= vao'.vertexCount
         /\ vao'.vertexCount <= 4 * vao.vertexCount]_vars

\* C3, amended: the grid rebuilt at (2W, 2H) has exactly as many columns, rows
\* and points as the grid at (W, H) (the step doubles with the viewport).
C3_DoublingKeepsCount ==
    [][DoublingResize =>
         /\ vao'.positions.cols = vao.positions.cols
         /\ vao'.positions.rows = vao.positions.rows
         /\ vao'.vertexCount = vao.vertexCount]_vars

\* 566 x 300 is the double of 283 x 150, and the grid has the 70 * 37 points of
\* the grid at 283 x 150.
C3_Witness ==
    /\ Running
    /\ canvas = Size(566, 300)
    /\ vao.vertexCount = 2590
    /\ GridTable[Size(283, 150)].vertexCount = 2590

\* C5: whatever events precede it, a frame finds pMatrix and the grid both
\* computed from the current canvas size, and what it hands to WebGL (matrix,
\* draw count) belongs to the one viewport it sets.
C5_FrameSeesCurrentViewport ==
    /\ Running =>
           /\ heap[pMatrix] = ExpectedProjection(canvas)
           /\ vao = GridTable[canvas]
    /\ drawn.seq # 0 =>
           /\ drawn.u_mpMatrix = ExpectedProjection(drawn.viewport)
           /\ drawn.vertexCount = GridTable[drawn.viewport].vertexCount

\* A frame has run after a resize to another size and a pointer event.
C5_Witness ==
    /\ drawn.seq = 2
    /\ drawn.after = {"resize", "pointer"}
    /\ hist.sinceFrame = {}
    /\ drawn.viewport = Size(800, 600)
    /\ inner = Size(800, 600)
    /\ drawn.vertexCount = 3588

\* C6 as stated: after any pointer, touch and resize events, (mouseX, mouseY) is
\* the most recent pointer position in the frame centred on the current canvas.
C6_PointerInCurrentFrame ==
    hist.seen =>
        /\ mouse.x = RSub(Num(hist.x), RDiv(Num(canvas.width), Num(2)))
        /\ mouse.y = RSub(RDiv(Num(canvas.height), Num(2)), Num(hist.y))

\* The nine cells of pMatrix (none before resizeCanvas first runs).
PMatrixCells == IF pMatrix = Null THEN Free ELSE heap[pMatrix]

\* A step in which resizeCanvas runs: main, or the resize listener.
ResizeCanvasRuns ==
    \/ Main
    \/ MainThrows
    \/ \E s \in Sizes : ResizeListener(s.width, s.height)

\* C7: a frame leaves pMatrix and its nine cells as they were and computes its
\* product in an object other than pMatrix; pMatrix or its cells change only in
\* a step where resizeCanvas runs.
C7_FrameLeavesProjection ==
    [][/\ drawn'.seq # drawn.seq =>
              /\ pMatrix' = pMatrix
              /\ PMatrixCells' = PMatrixCells
              /\ drawn'.mpMatrix # pMatrix'
       /\ (pMatrix' # pMatrix \/ PMatrixCells' # PMatrixCells) => ResizeCanvasRuns]_vars

\* Two frames have run; the product was left in another object than pMatrix and
\* equals the projection, which pMatrix still holds.
C7_Witness ==
    /\ drawn.seq = 2
    /\ hist.sinceFrame = {}
    /\ drawn.mpMatrix # pMatrix
    /\ drawn.u_mpMatrix = heap[pMatrix]
    /\ heap[pMatrix] = ExpectedProjection(canvas)
    /\ canvas = Size(600, 800)

\* C9: once main has scheduled the first frame exactly one frame callback is
\* pending, whatever events occur, and a frame always runs again.
C9_FrameLoop ==
    /\ [](Running => raf = 1)
    /\ [](Running => <>(drawn.seq = 1))
    /\ [](Running => <>(drawn.seq = 2))

\* A second frame has run, after a resize and a pointer event, and the next one
\* is pending.
C9_Witness ==
    /\ Running
    /\ raf = 1
    /\ drawn.seq = 2
    /\ drawn.after = {"resize", "pointer"}
    /\ hist.sinceFrame = {"pointer"}

Half(n) == RDiv(Num(n), Num(2))

\* C10 as stated: on both axes the first point is at -extent/2 + step/2 and the
\* last at +extent/2 - step/2 (the coordinates are symmetric about 0), and every
\* point lies in [-W/2, W/2] x [-H/2, H/2].
C10_Original ==
    Running =>
        LET buf == vao.positions
            half == RDiv(buf.step, Num(2))
        IN  /\ PositionX(buf, 0) = RAdd(RNeg(Half(canvas.width)), half)
            /\ PositionX(buf, buf.cols - 1) = RSub(Half(canvas.width), half)
            /\ PositionY(buf, 0) = RAdd(RNeg(Half(canvas.height)), half)
            /\ PositionY(buf, buf.rows - 1) = RSub(Half(canvas.height), half)
            /\ \A x \in {0, buf.cols - 1} :
                   /\ RLeq(RNeg(Half(canvas.width)), PositionX(buf, x))
                   /\ RLeq(PositionX(buf, x), Half(canvas.width))
            /\ \A y \in {0, buf.rows - 1} :
                   /\ RLeq(RNeg(Half(canvas.height)), PositionY(buf, y))
                   /\ RLeq(PositionY(buf, y), Half(canvas.height))

\* C10, amended: on both axes the first point is at -extent/2 + step/2, the
\* points are one step apart (the n-th is n - 1 steps from the first), and the
\* last point is within half a step of
\* +extent/2, on either side; every point lies in
\* [-W/2, W/2 + step/2] x [-H/2, H/2 + step/2].
C10_LatticeFromLowCorner ==
    Running =>
        LET buf == vao.positions
            half == RDiv(buf.step, Num(2))
        IN  /\ PositionX(buf, 0) = RAdd(RNeg(Half(canvas.width)), half)
            /\ PositionY(buf, 0) = RAdd(RNeg(Half(canvas.height)), half)
            /\ RSub(PositionX(buf, 1), PositionX(buf, 0)) = buf.step
            /\ RSub(PositionY(buf, 1), PositionY(buf, 0)) = buf.step
            /\ PositionX(buf, buf.cols - 1)
                   = RAdd(PositionX(buf, 0), RMul(Num(buf.cols - 1), buf.step))
            /\ PositionY(buf, buf.rows - 1)
                   = RAdd(PositionY(buf, 0), RMul(Num(buf.rows - 1), buf.step))
            /\ RLeq(RSub(Half(canvas.width), half), PositionX(buf, buf.cols - 1))
            /\ RLeq(PositionX(buf, buf.cols - 1), RAdd(Half(canvas.width), half))
            /\ RLeq(RSub(Half(canvas.height), half), PositionY(buf, buf.rows - 1))
            /\ RLeq(PositionY(buf, buf.rows - 1), RAdd(Half(canvas.height), half))

\* At 283 x 150 the grid has 70 columns and its last column lies beyond the
\* right edge, at W/2 + step/2; the rows are not symmetric about 0.
C10_Witness ==
    /\ Running
    /\ canvas = Size(283, 150)
    /\ vao.positions.cols = 70
    /\ RLess(Half(283), PositionX(vao.positions, 69))
    /\ PositionY(vao.positions, vao.positions.rows - 1) # RNeg(PositionY(vao.positions, 0))

(***************************************************************************)
(* scripts/copyButtons.js: the copy buttons.  copyLink is called once per  *)
(* button (lines 1-3) and registers one click listener on it; its return   *)
(* value, undefined, is what lines 1-3 pass to addEventListener, which     *)
(* registers nothing.  Time advances in ticks of TickMs; a timeout         *)
(* callback runs as soon as its delay has elapsed.                         *)
(***************************************************************************)
Buttons == {"#copy-email", "#copy-github", "#copy-linkedin"}

LinkId(buttonId) ==
    CASE buttonId = "#copy-email" -> "#email-link"
      [] buttonId = "#copy-github" -> "#github-link"
      [] buttonId = "#copy-linkedin" -> "#linkedin-link"

\* The text content of a link element (page markup).
textContent(linkId) == <<"text of", linkId>>

Check == "check"
ContentCopy == "content_copy"

\* The delay passed to setTimeout, in ms.
TimeoutMs == 1500
TicksPerTimeout == 3
TickMs == TimeoutMs \div TicksPerTimeout
\* Pending timeout callbacks per button.
MaxPending == 2

NeverClicked == [clicked |-> FALSE, ms |-> 0]

Min(a, b) == IF a < b THEN a ELSE b

CopyInit ==
    /\ pc = "copy"
    /\ heap = EmptyHeap
    /\ callRec = NoCall
    /\ PageIdle
    /\ innerHTML = [b \in Buttons |-> ContentCopy]
    /\ timers = [b \in Buttons |-> << >>]
    /\ clipboard = << >>
    /\ sinceClick = [b \in Buttons |-> NeverClicked]

\* The click listener registered by copyLink.  navigator.clipboard.writeText is
\* not awaited: the write may be rejected (written = FALSE).
ClickListener(buttonId, written) ==
    /\ Len(timers[buttonId]) < MaxPending
    /\ clipboard' = IF written THEN textContent(LinkId(buttonId)) ELSE clipboard
    /\ innerHTML' = [innerHTML EXCEPT ![buttonId] = Check]
    /\ timers' = [timers EXCEPT ![buttonId] = Append(@, TimeoutMs)]
    /\ sinceClick' = [sinceClick EXCEPT ![buttonId] = [clicked |-> TRUE, ms |-> 0]]
    /\ UNCHANGED <<heap, pc, callRec, pageVars>>

\* The arrow function handed to setTimeout, run when its delay has elapsed.
TimeoutCallback(buttonId) ==
    /\ timers[buttonId] # << >>
    /\ Head(timers[buttonId]) = 0
    /\ innerHTML' = [innerHTML EXCEPT ![buttonId] = ContentCopy]
    /\ timers' = [timers EXCEPT ![buttonId] = Tail(@)]
    /\ UNCHANGED <<heap, pc, callRec, pageVars, clipboard, sinceClick>>

TimerDue == \E b \in Buttons : timers[b] # << >> /\ Head(timers[b]) = 0

\* TickMs pass; no callback is due.
Tick ==
    /\ ~TimerDue
    /\ timers' = [b \in Buttons |->
                     [i \in DOMAIN timers[b] |-> timers[b][i] - Min(TickMs, timers[b][i])]]
    /\ sinceClick' = [b \in Buttons |->
                         IF sinceClick[b].clicked
                         THEN [sinceClick[b] EXCEPT !.ms = Min(@ + TickMs, TimeoutMs)]
                         ELSE sinceClick[b]]
    /\ UNCHANGED <<heap, pc, callRec, pageVars, innerHTML, clipboard>>

CopyNext ==
    \/ \E b \in Buttons, written \in BOOLEAN : ClickListener(b, written)
    \/ \E b \in Buttons : TimeoutCallback(b)
    \/ Tick

SpecCopy == CopyInit /\ [][CopyNext]_vars

(***************************************************************************)
(* Claim about the copy buttons, under SpecCopy.                           *)
(***************************************************************************)
\* C4 as stated: after every click on a copy button, also one made while an
\* earlier confirmation is showing, the button shows the "check" glyph for the
\* full 1.5 seconds that follow the click.
C4_CheckShownForTimeout ==
    \A b \in Buttons :
        (sinceClick[b].clicked /\ sinceClick[b].ms < TimeoutMs) => innerHTML[b] = Check

====
